---- MODULE Spec2Model ----
(***************************************************************************)
(* A model of src/NCGL.py: the NCGL class (Noisy Complex Ginzburg-Landau). *)
(*                                                                         *)
(* Spec       the control flow of NCGL.solveRKF45 and of                   *)
(*            NCGL.getNoisyChainedSingleReaction on an object built by     *)
(*            NCGL.__init__: elapsed time, step size, the two returned     *)
(*            lists, the Assembler calls and the noise lookups they make.  *)
(* FairSpec   Spec with weak fairness on Next (the code is one sequential  *)
(*            thread that always runs its next statement).                 *)
(* NumSpec    the arithmetic of interpolateNoise, __interpolate1D,         *)
(*            timeDerivatives and the two Fehlberg combinations, each      *)
(*            applied to inputs drawn from small sets, in exact rational   *)
(*            arithmetic.                                                  *)
(*                                                                         *)
(* Time is counted in integer ticks; a stage time is a fraction of ticks.  *)
(* The content of a Field is not computed in Spec: a Field is the tag of   *)
(* the computation that produced it, held in a heap of arrays so that      *)
(* Python's reference semantics (a list holds references) is kept.         *)
(***************************************************************************)
EXTENDS Integers, Sequences, FiniteSets, TLC

VARIABLES
    cfg,        \* the object's fields set by __init__: msize, ic, noiseSpeed
    pc,         \* position in the running method
    entry,      \* the method called: "none", "solve", "chain"
    dt,         \* solveRKF45's dt, in ticks
    ntimes,     \* solveRKF45's ntimes (the chain's nit when entry = "chain")
    stepsave,   \* solveRKF45's stepsave
    tol,        \* solveRKF45's dtTolerace
    time,       \* the loop index (time in solveRKF45, i in the chain)
    t,          \* elapsed time, in ticks
    step,       \* the step size of the current iteration, in ticks
    error,      \* the local error estimate of the first six-stage pass
    heap,       \* the arrays allocated so far (their contents)
    state,      \* reference (index in heap) of the current Field
    states,     \* the list states: references into heap
    times,      \* the list times
    frames,     \* self.nr1.shape[0]
    maxTime,    \* self.maxTime, in ticks
    generated,  \* generation work performed so far: "field", "noise"
    raised,     \* the exception that ended the call, or "none"
    calls,      \* timeDerivatives calls made in the current iteration
    passes,     \* six-stage computations made in the current iteration
    lookups,    \* the noise lookups of the last six-stage pass / chain step
    accepted,   \* history: the content accepted at the end of each iteration
    snapTimes,  \* history: elapsed time at which each snapshot was appended
    op,         \* NumSpec: "input", then the function that was applied
    arg,        \* NumSpec: the function's arguments
    res         \* NumSpec: what it returned

runVars == <<cfg, pc, entry, dt, ntimes, stepsave, tol, time, t, step, error,
             heap, state, states, times, frames, maxTime, generated, raised,
             calls, passes, lookups, accepted, snapTimes>>
numVars == <<op, arg, res>>
vars == <<runVars, numVars>>

(***************************************************************************)
(* Bounds of the model.                                                    *)
(***************************************************************************)
MaxNTimes == 2
MaxError == 3
Scale == 4

(***************************************************************************)
(* Rationals <<numerator, denominator>> with a positive denominator.       *)
(***************************************************************************)
Floor(q) == q[1] \div q[2]
Ceil(q) == -((-q[1]) \div q[2])

(***************************************************************************)
(* NCGL.__init__ (lines 34-63) stores its arguments and checks none.       *)
(* noiseSpeed is a rational: 0, 2/3, 1 and 2.                              *)
(***************************************************************************)
MSizes == {-1, 0, 1, 2}
Ics == {"r", "g", "x"}
NoiseSpeeds == {<<0, 1>>, <<2, 3>>, <<1, 1>>, <<2, 1>>}
Configs == [msize : MSizes, ic : Ics, noiseSpeed : NoiseSpeeds]

(* The arguments the callers pass. *)
DtVals == {Scale, 2 * Scale}
TolVals == {1, 2}
ErrVals == [k : {"fin"}, v : 0..MaxError] \cup [k : {"inf", "nan"}, v : {0}]
NoError == [k |-> "fin", v |-> 0]

(***************************************************************************)
(* getInitialCondition (lines 75-81) with __getRandom (65-67) and          *)
(* __getGaussian (69-73).  ic = 'r' reshapes msize**2 numbers to           *)
(* (msize, msize), which numpy refuses for msize < 0; any other ic takes   *)
(* the Gaussian branch, whose np.sum(..., as_vs=0) is a TypeError.         *)
(***************************************************************************)
InitialConditionRaises(c) ==
    IF c.ic = "r"
    THEN IF c.msize < 0 THEN "ValueError" ELSE "none"
    ELSE IF c.msize < 0 THEN "ValueError" ELSE "TypeError"

(* Line 200: the number of frames, int(self.noiseSpeed*ntimes). *)
Frames(c, n) == Floor(<<c.noiseSpeed[1] * n, c.noiseSpeed[2]>>)

(* Line 202: np.gradient needs at least 2 elements along every axis. *)
GradientRaises(c, fr) == fr < 2 \/ c.msize < 2

(* Line 204 without the margin of two steps. *)
MaxTime_NoMargin(n, d) == n * d

(* Line 204. *)
MaxTime(n, d) == (n + 2) * d

(***************************************************************************)
(* Lines 220-222.  error > dtTolerace is False for nan and True for inf.   *)
(* The corrected step dt*((dtTolerace/(2*error))**.25) is kept to the      *)
(* resolution dt/Scale, rounded down; error = inf gives 0.                 *)
(***************************************************************************)
Exceeds_AtLeast(err, tl) == err.k = "inf" \/ (err.k = "fin" /\ err.v >= tl)
Exceeds(err, tl) == err.k = "inf" \/ (err.k = "fin" /\ err.v > tl)
Pow4(x) == x * x * x * x
CorrectionFactor(tl, err) ==
    IF err.k = "inf" THEN 0
    ELSE CHOOSE r \in 0..(2 * Scale) :
            /\ Pow4(r) * 2 * err.v <= Pow4(Scale) * tl
            /\ Pow4(r + 1) * 2 * err.v > Pow4(Scale) * tl
(* The ratio of line 222 upside down: (2*error/dtTolerace)**.25. *)
CorrectedStep_InverseRatio(d, tl, err) ==
    IF CorrectionFactor(tl, err) = 0 THEN d * Scale * Scale
    ELSE (d * Scale) \div CorrectionFactor(tl, err)
CorrectedStep(d, tl, err) == (d * CorrectionFactor(tl, err)) \div Scale

(***************************************************************************)
(* Lines 210-215 and 224-229: the time each of the six timeDerivatives     *)
(* calls is given, t + c*step for c = 0, 1/4, 3/8, 12/13, 1, 1/2.          *)
(***************************************************************************)
StageOffsets == << <<0, 1>>, <<1, 4>>, <<3, 8>>, <<12, 13>>, <<1, 1>>, <<1, 2>> >>
StageTime(tt, st, i) ==
    <<tt * StageOffsets[i][2] + StageOffsets[i][1] * st, StageOffsets[i][2]>>

(***************************************************************************)
(* timeDerivatives line 248 and interpolateNoise line 159: the two frame   *)
(* indices for a call at time tm (a rational number of ticks).             *)
(***************************************************************************)
NormalizedTime(tm, mt) == <<tm[1], tm[2] * mt>>
FrameIndices(fr, tau) ==
    [p1 |-> Floor(<<(fr - 1) * tau[1], tau[2]>>),
     p2 |-> Ceil(<<(fr - 1) * tau[1], tau[2]>>)]
NoiseLookup(fr, mt, tm) ==
    [tm |-> tm, p1 |-> FrameIndices(fr, NormalizedTime(tm, mt)).p1,
                p2 |-> FrameIndices(fr, NormalizedTime(tm, mt)).p2]
SixStages(fr, mt, tt, st) == {NoiseLookup(fr, mt, StageTime(tt, st, i)) : i \in 1..6}

(* Python indexing: an index in -len..len-1 is served, any other raises. *)
IndexRaises(len, p) == p >= len \/ p < -len
LookupsRaise(len, ls) == \E l \in ls : IndexRaises(len, l.p1) \/ IndexRaises(len, l.p2)

(***************************************************************************)
(* __interpolate1D line 109 at t = x2/2, and the three arguments           *)
(* i, i+0.5, i+1 of lines 135-143.                                         *)
(***************************************************************************)
Interp1DLookup(x2) == [tm |-> <<x2, 2>>, p1 |-> Floor(<<x2, 2>>), p2 |-> Ceil(<<x2, 2>>)]
ChainStages(i) == {Interp1DLookup(x2) : x2 \in {2 * i, 2 * i + 1, 2 * i + 2}}

(***************************************************************************)
(* The state after construction.                                           *)
(***************************************************************************)
Init ==
    /\ cfg \in Configs
    /\ pc = "Constructed"
    /\ entry = "none"
    /\ dt = 0 /\ ntimes = 0 /\ stepsave = {} /\ tol = 0
    /\ time = 0 /\ t = 0 /\ step = 0 /\ error = NoError
    /\ heap = <<>> /\ state = 0 /\ states = <<>> /\ times = <<>>
    /\ frames = 0 /\ maxTime = 0
    /\ generated = {} /\ raised = "none"
    /\ calls = 0 /\ passes = 0 /\ lookups = {}
    /\ accepted = <<>> /\ snapTimes = <<>>
    /\ op = "none" /\ arg = <<>> /\ res = <<>>

(* Lines 178-190: the call, getInitialCondition, the two lists, t = 0. *)
CallSolve ==
    /\ pc = "Constructed"
    /\ \E d \in DtVals, n \in 0..MaxNTimes, tl \in TolVals :
         \E ss \in SUBSET (0..n) :
            /\ entry' = "solve"
            /\ dt' = d /\ ntimes' = n /\ stepsave' = ss /\ tol' = tl
    /\ IF InitialConditionRaises(cfg) # "none"
       THEN /\ raised' = InitialConditionRaises(cfg)
            /\ pc' = "Raised"
            /\ UNCHANGED <<heap, state, states, snapTimes, generated, times, t>>
       ELSE /\ heap' = << <<"ic">> >>
            /\ state' = 1
            /\ times' = <<>>
            /\ states' = <<1>>
            /\ snapTimes' = <<0>>
            /\ t' = 0
            /\ generated' = generated \cup {"field"}
            /\ pc' = "Noise"
            /\ UNCHANGED raised
    /\ UNCHANGED numVars
    /\ UNCHANGED <<cfg, time, step, error, frames, maxTime, calls, passes,
                   lookups, accepted>>

(* Lines 192-204: the noise tensor, its gradient, maxTime. *)
GenerateNoise ==
    /\ pc = "Noise"
    /\ frames' = Frames(cfg, ntimes)
    /\ generated' = generated \cup {"noise"}
    /\ IF GradientRaises(cfg, Frames(cfg, ntimes))
       THEN /\ raised' = "ValueError"
            /\ pc' = "Raised"
            /\ UNCHANGED maxTime
       ELSE /\ maxTime' = MaxTime(ntimes, dt)
            /\ pc' = "Loop"
            /\ UNCHANGED raised
    /\ UNCHANGED numVars
    /\ UNCHANGED <<cfg, entry, dt, ntimes, stepsave, tol, time, t, step, error, heap,
                   state, states, times, calls, passes, lookups, accepted,
                   snapTimes>>

(* Lines 206-220: step = dt, the six stages, the two estimates, error. *)
StepFirst ==
    /\ pc = "Loop"
    /\ time < ntimes
    /\ step' = dt
    /\ lookups' = SixStages(frames, maxTime, t, dt)
    /\ calls' = 6
    /\ passes' = 1
    /\ IF LookupsRaise(frames, SixStages(frames, maxTime, t, dt))
       THEN /\ raised' = "IndexError"
            /\ pc' = "Raised"
            /\ UNCHANGED error
       ELSE /\ \E e \in ErrVals : error' = e
            /\ pc' = "ErrorCheck"
            /\ UNCHANGED raised
    /\ UNCHANGED numVars
    /\ UNCHANGED <<cfg, entry, dt, ntimes, stepsave, tol, time, t, heap, state,
                   states, times, frames, maxTime, generated, accepted, snapTimes>>

(* Lines 221-231: error > dtTolerace, the corrected step and six stages. *)
CorrectedStepPass ==
    /\ pc = "ErrorCheck"
    /\ Exceeds(error, tol)
    /\ step' = CorrectedStep(dt, tol, error)
    /\ lookups' = SixStages(frames, maxTime, t, CorrectedStep(dt, tol, error))
    /\ calls' = calls + 6
    /\ passes' = passes + 1
    /\ IF LookupsRaise(frames, SixStages(frames, maxTime, t, CorrectedStep(dt, tol, error)))
       THEN raised' = "IndexError" /\ pc' = "Raised"
       ELSE pc' = "Accept" /\ UNCHANGED raised
    /\ UNCHANGED numVars
    /\ UNCHANGED <<cfg, entry, dt, ntimes, stepsave, tol, time, t, error, heap,
                   state, states, times, frames, maxTime, generated, accepted,
                   snapTimes>>

(* Line 221 when the test is False. *)
NoCorrection ==
    /\ pc = "ErrorCheck"
    /\ ~Exceeds(error, tol)
    /\ pc' = "Accept"
    /\ UNCHANGED numVars
    /\ UNCHANGED <<cfg, entry, dt, ntimes, stepsave, tol, time, t, step, error,
                   heap, state, states, times, frames, maxTime, generated,
                   raised, calls, passes, lookups, accepted, snapTimes>>

(***************************************************************************)
(* Lines 233-235: t += step; state = approach4 (a new array, state is      *)
(* rebound to it); times.append(t).                                        *)
(***************************************************************************)
Approach4(i, st) == <<"approach4", i, st>>
AcceptField(h, ref, new) == Append(h, new)
(* A slip of line 233: t = step. *)
Advance_Overwrite(tt, st) == st
Advance(tt, st) == tt + st
Accept ==
    /\ pc = "Accept"
    /\ t' = Advance(t, step)
    /\ heap' = AcceptField(heap, state, Approach4(time, step))
    /\ state' = Len(heap')
    /\ times' = Append(times, t')
    /\ accepted' = Append(accepted, Approach4(time, step))
    /\ pc' = "Save"
    /\ UNCHANGED numVars
    /\ UNCHANGED <<cfg, entry, dt, ntimes, stepsave, tol, time, step, error,
                   states, frames, maxTime, generated, raised, calls, passes,
                   lookups, snapTimes>>

(* Lines 236-237, and the loop's next index. *)
SaveTest_OffByOne(i, ss) == (i + 1) \in ss
SaveTest(i, ss) == i \in ss
Save ==
    /\ pc = "Save"
    /\ IF SaveTest(time, stepsave)
       THEN /\ states' = Append(states, state)
            /\ snapTimes' = Append(snapTimes, t)
       ELSE UNCHANGED <<states, snapTimes>>
    /\ time' = time + 1
    /\ pc' = "Loop"
    /\ UNCHANGED numVars
    /\ UNCHANGED <<cfg, entry, dt, ntimes, stepsave, tol, t, step, error, heap,
                   state, times, frames, maxTime, generated, raised, calls,
                   passes, lookups, accepted>>

(* Line 238: the loop is over. *)
Return ==
    /\ pc = "Loop"
    /\ time >= ntimes
    /\ pc' = "Done"
    /\ UNCHANGED numVars
    /\ UNCHANGED <<cfg, entry, dt, ntimes, stepsave, tol, time, t, step, error,
                   heap, state, states, times, frames, maxTime, generated,
                   raised, calls, passes, lookups, accepted, snapTimes>>

(***************************************************************************)
(* getNoisyChainedSingleReaction: lines 121-129 (eta has nit+2 elements),  *)
(* one iteration of the loop (131-144), the return (145).                  *)
(***************************************************************************)
CallChain ==
    /\ pc = "Constructed"
    /\ \E nit \in 0..MaxNTimes : ntimes' = nit /\ frames' = nit + 2
    /\ entry' = "chain"
    /\ time' = 0
    /\ generated' = generated \cup {"noise"}
    /\ pc' = "ChainLoop"
    /\ UNCHANGED numVars
    /\ UNCHANGED <<cfg, dt, stepsave, tol, t, step, error, heap, state, states,
                   times, maxTime, raised, calls, passes, lookups, accepted,
                   snapTimes>>

ChainStep ==
    /\ pc = "ChainLoop"
    /\ time < ntimes
    /\ lookups' = ChainStages(time)
    /\ calls' = 4
    /\ IF LookupsRaise(frames, ChainStages(time))
       THEN raised' = "IndexError" /\ pc' = "Raised" /\ UNCHANGED time
       ELSE time' = time + 1 /\ UNCHANGED <<pc, raised>>
    /\ UNCHANGED numVars
    /\ UNCHANGED <<cfg, entry, dt, ntimes, stepsave, tol, t, step, error, heap,
                   state, states, times, frames, maxTime, generated, passes,
                   accepted, snapTimes>>

ChainReturn ==
    /\ pc = "ChainLoop"
    /\ time >= ntimes
    /\ pc' = "Done"
    /\ UNCHANGED numVars
    /\ UNCHANGED <<cfg, entry, dt, ntimes, stepsave, tol, time, t, step, error,
                   heap, state, states, times, frames, maxTime, generated,
                   raised, calls, passes, lookups, accepted, snapTimes>>

Next ==
    \/ CallSolve
    \/ GenerateNoise
    \/ StepFirst
    \/ CorrectedStepPass
    \/ NoCorrection
    \/ Accept
    \/ Save
    \/ Return
    \/ CallChain
    \/ ChainStep
    \/ ChainReturn

Spec == Init /\ [][Next]_vars

FairSpec == Init /\ [][Next]_vars /\ WF_vars(Next)

(***************************************************************************)
(* Exact rational arithmetic on <<numerator, denominator>>, kept in lowest *)
(* terms with a positive denominator.                                      *)
(***************************************************************************)
Abs(x) == IF x < 0 THEN -x ELSE x
RECURSIVE GCD(_, _)
GCD(a, b) == IF b = 0 THEN Abs(a) ELSE GCD(b, a % b)
Norm(q) ==
    LET g == GCD(q[1], q[2])
        sg == IF q[2] < 0 THEN -1 ELSE 1
    IN  IF q[1] = 0 THEN <<0, 1>> ELSE <<sg * (q[1] \div g), sg * (q[2] \div g)>>
RAdd(p, q) ==
    LET L == (p[2] \div GCD(p[2], q[2])) * q[2]
    IN  Norm(<<p[1] * (L \div p[2]) + q[1] * (L \div q[2]), L>>)
RNeg(p) == <<-p[1], p[2]>>
RSub(p, q) == RAdd(p, RNeg(q))
RMul(p, q) == Norm(<<p[1] * q[1], p[2] * q[2]>>)
RDiv(p, q) == Norm(<<p[1] * q[2], p[2] * q[1]>>)
RAbs(p) == <<Abs(p[1]), p[2]>>
RInt(n) == <<n, 1>>

(***************************************************************************)
(* interpolateNoise (lines 151-175).  nr1 and nr2 are the sequences of     *)
(* frames (one number stands for a frame: the arithmetic is elementwise);  *)
(* frame p of the code is element p+1 here.  t = np.linspace(0,1,frames).  *)
(***************************************************************************)
LinSpace(fr, p) == IF fr = 1 THEN <<0, 1>> ELSE Norm(<<p, fr - 1>>)
Blend(t1, t2, tau, m1, m2) ==
    RAdd(RDiv(RMul(RAbs(RSub(t1, tau)), RInt(m1)), RAbs(RSub(t2, t1))),
         RDiv(RMul(RAbs(RSub(t2, tau)), RInt(m2)), RAbs(RSub(t2, t1))))
interpolateNoise(nr1, nr2, tau) ==
    LET fr == Len(nr1)
        p1 == FrameIndices(fr, tau).p1
        p2 == FrameIndices(fr, tau).p2
        t1 == LinSpace(fr, p1)
        t2 == LinSpace(fr, p2)
    IN  IF t1 = t2
        THEN [mr3 |-> RInt(nr1[p1 + 1]), md3 |-> RInt(nr2[p1 + 1])]
        ELSE [mr3 |-> Blend(t1, t2, tau, nr1[p1 + 1], nr1[p2 + 1]),
              md3 |-> Blend(t1, t2, tau, nr2[p1 + 1], nr2[p2 + 1])]

(* __interpolate1D (lines 108-113) at t = tq, a rational. *)
interpolate1D(noise, tq) ==
    LET p1 == Floor(tq)
        p2 == Ceil(tq)
    IN  IF p1 = p2
        THEN RInt(noise[p1 + 1])
        ELSE RAdd(RDiv(RMul(RInt(noise[p1 + 1]), RAbs(RSub(tq, RInt(p1)))),
                       RInt(Abs(p1 - p2))),
                  RDiv(RMul(RInt(noise[p2 + 1]), RAbs(RSub(tq, RInt(p2)))),
                       RInt(Abs(p1 - p2))))

(***************************************************************************)
(* timeDerivatives (lines 240-262) on a 2 x 2 grid, the smallest one       *)
(* np.gradient (line 202) lets solveRKF45 run on.  There                   *)
(* 2*pi*fftfreq(2) = [0, -pi], so its square is FreqSq(k)*pi**2, and the   *)
(* transform's factors exp(-2*pi*i*k*x/2) are +1 and -1.  A Laplacian is   *)
(* counted in units of pi**2/4 (the 1/4 is ifftn's 1/(2*2)).               *)
(***************************************************************************)
Idx == {0, 1}
Cells == Idx \X Idx
Sign(n) == IF n % 2 = 0 THEN 1 ELSE -1
FreqSq(k) == k
Sum4(f) == f[<<0, 0>>] + f[<<0, 1>>] + f[<<1, 0>>] + f[<<1, 1>>]
(* fftn of a real grid (lines 246-247); c = <<row, column>>. *)
fftn(g) ==
    [k \in Cells |-> Sum4([c \in Cells |-> g[c] * Sign(k[1] * c[1] + k[2] * c[2])])]
(* -(fx[None,:]**2)*F - (fy[:,None]**2)*F of line 253. *)
SpectralMultiply(F) ==
    [k \in Cells |-> -(FreqSq(k[2]) * F[k]) - (FreqSq(k[1]) * F[k])]
(* 4 * np.real(ifftn(G)). *)
ifftn4(G) ==
    [c \in Cells |-> Sum4([k \in Cells |-> G[k] * Sign(k[1] * c[1] + k[2] * c[2])])]
LapPart(g) == ifftn4(SpectralMultiply(fftn(g)))
(* Line 253: real part + 1j*imaginary part/(self.h**2). *)
Laplacian(st, h) ==
    [c \in Cells |-> [re |-> RInt(LapPart(st.re)[c]),
                      im |-> RDiv(RInt(LapPart(st.im)[c]), RInt(h * h))]]
LapIsZero(l) == l.re[1] = 0 /\ l.im[1] = 0
(***************************************************************************)
(* Lines 257-262.  Of the value returned only this is kept: whether it is  *)
(* finite at each cell.  The diffusive branch divides lap*tnr2 by          *)
(* np.abs(lap), elementwise: 0/0 is nan in numpy, with no exception.       *)
(***************************************************************************)
RhsFinite(st, h, noiseType) ==
    [c \in Cells |-> IF noiseType = "diffusive"
                     THEN ~LapIsZero(Laplacian(st, h)[c])
                     ELSE TRUE]
timeDerivatives(st, h, noiseType) ==
    [lap |-> Laplacian(st, h), finite |-> RhsFinite(st, h, noiseType), raised |-> "none"]

(***************************************************************************)
(* Lines 217-218 (and 231): the weights of k1..k6 in approach4 and         *)
(* approach5, and the two combinations for a state s and increments k.     *)
(***************************************************************************)
Approach4Weights ==
    << <<25, 216>>, <<0, 1>>, <<1408, 2565>>, <<2197, 4101>>, <<-1, 5>>, <<0, 1>> >>
Approach5Weights ==
    << <<16, 135>>, <<0, 1>>, <<6656, 12825>>, <<28561, 56430>>, <<-9, 50>>, <<2, 55>> >>
RECURSIVE WeightedSum(_, _, _)
WeightedSum(w, k, n) ==
    IF n = 0 THEN <<0, 1>>
    ELSE RAdd(WeightedSum(w, k, n - 1), RMul(w[n], RInt(k[n])))
Combine(w, s, k) == RAdd(RInt(s), WeightedSum(w, k, 6))
(* Lines 210, 217, 234: k1 = step*timeDerivatives(state, t) is a term of   *)
(* approach4, the accepted Field: a nan of k1 is a nan of the Field.       *)
AcceptedFinite(k1Finite, restFinite) == [c \in Cells |-> k1Finite[c] /\ restFinite]

(***************************************************************************)
(* NumSpec: the inputs, and one action per function.                       *)
(***************************************************************************)
FrameVals == 0..2
Taus == {<<n, 4>> : n \in 0..4}
InterpInputs ==
    UNION {[fn : {"interpolateNoise"}, nr1 : [1..fr -> FrameVals],
            nr2 : [1..fr -> FrameVals], tau : Taus] : fr \in 2..3}
Interp1DInputs ==
    [fn : {"interpolate1D"}, noise : [1..3 -> FrameVals], t : {<<x2, 2>> : x2 \in 0..4}]
GridVals == 0..1
Fields == [re : [Cells -> GridVals], im : [Cells -> GridVals]]
DerivInputs ==
    [fn : {"timeDerivatives"}, st : Fields, h : {1, 2},
     noiseType : {"diffusive", "multiplicative", "additive"}]
KVals == {-1, 0, 1}
RkfInputs == [fn : {"rkf"}, s : {0, 1}, k : [1..6 -> KVals]]

NumInit ==
    /\ op = "input"
    /\ arg \in InterpInputs \cup Interp1DInputs \cup DerivInputs \cup RkfInputs
    /\ res = <<>>
    /\ cfg = <<>> /\ pc = "Idle" /\ entry = "none"
    /\ dt = 0 /\ ntimes = 0 /\ stepsave = {} /\ tol = 0
    /\ time = 0 /\ t = 0 /\ step = 0 /\ error = NoError
    /\ heap = <<>> /\ state = 0 /\ states = <<>> /\ times = <<>>
    /\ frames = 0 /\ maxTime = 0
    /\ generated = {} /\ raised = "none"
    /\ calls = 0 /\ passes = 0 /\ lookups = {}
    /\ accepted = <<>> /\ snapTimes = <<>>

ApplyInterpolateNoise ==
    /\ op = "input" /\ arg.fn = "interpolateNoise"
    /\ res' = interpolateNoise(arg.nr1, arg.nr2, arg.tau)
    /\ op' = "interpolateNoise"
    /\ UNCHANGED <<arg, runVars>>

ApplyInterpolate1D ==
    /\ op = "input" /\ arg.fn = "interpolate1D"
    /\ res' = interpolate1D(arg.noise, arg.t)
    /\ op' = "interpolate1D"
    /\ UNCHANGED <<arg, runVars>>

ApplyTimeDerivatives ==
    /\ op = "input" /\ arg.fn = "timeDerivatives"
    /\ res' = timeDerivatives(arg.st, arg.h, arg.noiseType)
    /\ op' = "timeDerivatives"
    /\ UNCHANGED <<arg, runVars>>

(* The step that used the returned value as k1 is accepted (line 234). *)
AcceptStep ==
    /\ op = "timeDerivatives"
    /\ res.raised = "none"
    /\ \E rest \in BOOLEAN :
          res' = [res EXCEPT !.finite = AcceptedFinite(res.finite, rest)]
    /\ op' = "accepted"
    /\ UNCHANGED <<arg, runVars>>

ApplyRkf ==
    /\ op = "input" /\ arg.fn = "rkf"
    /\ res' = [approach4 |-> Combine(Approach4Weights, arg.s, arg.k),
               approach5 |-> Combine(Approach5Weights, arg.s, arg.k)]
    /\ op' = "rkf"
    /\ UNCHANGED <<arg, runVars>>

NumNext ==
    \/ ApplyInterpolateNoise
    \/ ApplyInterpolate1D
    \/ ApplyTimeDerivatives
    \/ AcceptStep
    \/ ApplyRkf

NumSpec == NumInit /\ [][NumNext]_vars

(***************************************************************************)
(* The claims.                                                             *)
(***************************************************************************)
RECURSIVE SortedSeq(_)
SortedSeq(S) ==
    IF S = {} THEN <<>>
    ELSE LET m == CHOOSE x \in S : \A y \in S : x <= y
         IN  <<m>> \o SortedSeq(S \ {m})
RECURSIVE NonDecreasing(_)
NonDecreasing(q) ==
    \/ Len(q) <= 1
    \/ q[1] <= q[2] /\ NonDecreasing(Tail(q))
RECURSIVE StepSum(_, _)
StepSum(acc, n) == IF n = 0 THEN 0 ELSE StepSum(acc, n - 1) + acc[n][3]

SolveRunning == entry = "solve" /\ pc \in {"Loop", "ErrorCheck", "Accept", "Save", "Done"}
SolveDone == entry = "solve" /\ pc = "Done"
(* The step indices whose iteration is over and that stepsave holds. *)
SavedSteps == SortedSeq({i \in stepsave : i < time})
SnapshotContents == [j \in 1..Len(states) |-> heap[states[j]]]
ErrorAboveTolerance == error.k = "inf" \/ (error.k = "fin" /\ error.v > tol)
(* A configuration section 7 of the specification calls an error. *)
BadConfig(c, n) ==
    \/ c.msize <= 0
    \/ c.ic \notin {"r", "g"}
    \/ c.noiseSpeed[1] <= 0
    \/ c.noiseSpeed[1] > c.noiseSpeed[2]
    \/ Frames(c, n) < 2

(* C1: the snapshot list is the initial Field followed by, in step order,  *)
(* exactly the Fields accepted at the steps of stepsave, unaltered by      *)
(* later steps; on return its length is 1 + |stepsave /\ {0..ntimes-1}|.   *)
C1_Snapshots ==
    SolveRunning =>
        /\ Len(states) = 1 + Len(SavedSteps)
        /\ SnapshotContents[1] = <<"ic">>
        /\ \A j \in 1..Len(SavedSteps) :
              SnapshotContents[j + 1] = accepted[SavedSteps[j] + 1]
        /\ pc = "Done" =>
              Len(states) = 1 + Cardinality(stepsave \cap (0..(ntimes - 1)))
(* A run of two steps that saves the second one only; 2 is out of range. *)
C1_Witness ==
    /\ SolveDone /\ ntimes = 2 /\ stepsave = {1, 2} /\ ~BadConfig(cfg, ntimes)
    /\ Len(states) = 2
    /\ SnapshotContents[2] = accepted[2]
    /\ accepted[2][2] = 1

C3_ElapsedTime ==
    (SolveRunning /\ dt > 0 /\ tol > 0) =>
        /\ NonDecreasing(<<0>> \o times)
        /\ Len(times) > 0 => times[Len(times)] = t
        /\ pc \in {"Accept", "Save"} =>
              \/ step = dt /\ ~ErrorAboveTolerance
              \/ step >= 0 /\ step < dt /\ ErrorAboveTolerance
        /\ \A i \in 1..Len(accepted) : accepted[i][3] >= 0 /\ accepted[i][3] <= dt
        /\ t <= Len(times) * dt
        /\ pc = "Done" => t <= ntimes * dt
(* A finished run with a corrected step and an uncorrected one. *)
C3_Witness ==
    /\ SolveDone /\ ntimes = 2 /\ dt > 0 /\ tol > 0
    /\ \E i \in 1..2 : accepted[i][3] < dt /\ accepted[i][3] > 0
    /\ \E i \in 1..2 : accepted[i][3] = dt
    /\ t < ntimes * dt /\ t = times[2]

C4_Iteration ==
    entry = "solve" =>
        /\ pc = "ErrorCheck" => step = dt /\ passes = 1 /\ calls = 6
        /\ pc \in {"Accept", "Save"} =>
              /\ passes = (IF ErrorAboveTolerance THEN 2 ELSE 1)
              /\ calls = 6 * passes
        /\ pc = "Save" => heap[state] = <<"approach4", time, step>>
        /\ pc \in {"Loop", "Done"} => Len(accepted) = time
        /\ pc = "Done" => time = ntimes /\ Len(accepted) = ntimes
C4_Order ==
    /\ (pc = "Loop" /\ pc' # "Loop") => pc' \in {"ErrorCheck", "Done", "Raised"}
    /\ (pc = "ErrorCheck" /\ pc' # "ErrorCheck") => pc' \in {"Accept", "Raised"}
    /\ (pc = "Accept" /\ pc' # "Accept") => pc' = "Save"
    /\ (pc = "Save" /\ pc' # "Save") => pc' = "Loop" /\ time' = time + 1
(* C4: a run is Init, then ntimes iterations, then Done.  Each iteration   *)
(* starts its six stages from the caller's dt, repeats them at most once   *)
(* and only if the first error exceeds the tolerance, and accepts that     *)
(* pass's approach4 with no further check (6 or 12 Assembler calls); the   *)
(* steps come in the order Step, ErrorCheck, Accept, Save; and a run that  *)
(* enters the loop reaches Done.                                           *)
C4_StateMachine ==
    /\ [](C4_Iteration)
    /\ [][C4_Order]_vars
    /\ (entry = "solve" /\ pc = "Loop") ~> (pc = "Done")
(* A finished run whose first step was corrected and whose second was not. *)
C4_Witness ==
    /\ SolveDone /\ ntimes = 2
    /\ accepted[1][3] < dt
    /\ accepted[2][3] = dt

(* C5: a configuration with msize <= 0, an ic other than 'r' and 'g', a    *)
(* noiseSpeed outside (0,1] or fewer than 2 noise frames ends in a         *)
(* configuration error raised before any generation work.                  *)
C5_ConfigFailsFast ==
    (entry = "solve" /\ BadConfig(cfg, ntimes)) =>
        pc = "Raised" /\ generated = {}

(* C6: with noiseType 'diffusive' and a zero Laplacian at some cell,       *)
(* timeDerivatives clamps or raises: no non-finite value is returned and   *)
(* none reaches the accepted Field.                                        *)
C6_NoNonFinite ==
    (op \in {"timeDerivatives", "accepted"} /\ arg.noiseType = "diffusive"
        /\ \E c \in Cells : LapIsZero(Laplacian(arg.st, arg.h)[c])) =>
            \/ res.raised # "none"
            \/ \A c \in Cells : res.finite[c]

Linear(noise, x) ==
    RAdd(RInt(noise[Floor(x) + 1]),
         RMul(RSub(x, RInt(Floor(x))),
              RInt(noise[Ceil(x) + 1] - noise[Floor(x) + 1])))
FrameCoordinate(fr, tau) == Norm(<<(fr - 1) * tau[1], tau[2]>>)
(* C7: interpolateNoise at tau and __interpolate1D at x return, for both   *)
(* views, frame[p1] + (x - p1)*(frame[p2] - frame[p1]), x = tau*(frames-1) *)
(* p1 = floor(x), p2 = ceil(x).                                            *)
C7_LinearInterpolation ==
    /\ op = "interpolateNoise" =>
          /\ res.mr3 = Linear(arg.nr1, FrameCoordinate(Len(arg.nr1), arg.tau))
          /\ res.md3 = Linear(arg.nr2, FrameCoordinate(Len(arg.nr2), arg.tau))
    /\ op = "interpolate1D" => res = Linear(arg.noise, arg.t)

(* C8: both the real and the imaginary component of the Laplacian of       *)
(* timeDerivatives are divided by h**2.                                    *)
C8_LaplacianOverH2 ==
    op = "timeDerivatives" =>
        \A c \in Cells :
           /\ res.lap[c].re = RDiv(RInt(LapPart(arg.st.re)[c]), RInt(arg.h * arg.h))
           /\ res.lap[c].im = RDiv(RInt(LapPart(arg.st.im)[c]), RInt(arg.h * arg.h))

Fehlberg4 ==
    << <<25, 216>>, <<0, 1>>, <<1408, 2565>>, <<2197, 4104>>, <<-1, 5>>, <<0, 1>> >>
Fehlberg5 ==
    << <<16, 135>>, <<0, 1>>, <<6656, 12825>>, <<28561, 56430>>, <<-9, 50>>, <<2, 55>> >>
(* C9: approach4 and approach5 use the Fehlberg weights, each summing to   *)
(* 1, so equal increments k1 = ... = k6 = k give state + k for both and a  *)
(* local error of 0.                                                       *)
C9_FehlbergWeights ==
    op = "rkf" =>
        /\ res.approach4 = Combine(Fehlberg4, arg.s, arg.k)
        /\ res.approach5 = Combine(Fehlberg5, arg.s, arg.k)
        /\ (\A i \in 1..6 : arg.k[i] = arg.k[1]) =>
              /\ res.approach4 = RInt(arg.s + arg.k[1])
              /\ res.approach5 = RInt(arg.s + arg.k[1])
              /\ res.approach4 = res.approach5

(* C10: every stage time of a solveRKF45 run with dt > 0 is in             *)
(* [0, ntimes*dt], below maxTime = (ntimes+2)*dt, and its two frame        *)
(* indices are in [0, frames-1]; every index of the single-amplitude       *)
(* chain is in [0, nit+1].                                                 *)
C10_LookupsInBuffer ==
    /\ (entry = "solve" /\ dt > 0) =>
          \A l \in lookups :
             /\ 0 <= l.tm[1] /\ l.tm[1] <= ntimes * dt * l.tm[2]
             /\ ntimes * dt < maxTime /\ maxTime = (ntimes + 2) * dt
             /\ l.tm[1] < maxTime * l.tm[2]
             /\ {l.p1, l.p2} \subseteq 0..(frames - 1)
    /\ entry = "chain" =>
          \A l \in lookups : {l.p1, l.p2} \subseteq 0..(ntimes + 1)
(* The last step of a run, uncorrected: a stage at ntimes*dt, and a stage  *)
(* between two frames.                                                     *)
C10_Witness ==
    /\ entry = "solve" /\ pc = "Accept" /\ time = ntimes - 1 /\ step = dt
    /\ \E l \in lookups : l.p1 < l.p2
    /\ \E l \in lookups : l.tm[1] = ntimes * dt * l.tm[2]

====
